---- MODULE Spec2Model ----
(***************************************************************************)
(* ZhiHuClient (src/media_platform/zhihu/client.py): the signed-request    *)
(* transport (get / _pre_headers / request under tenacity's @retry) and    *)
(* the two paginated comment walks (get_note_all_comments and              *)
(* get_comments_all_sub_comments), as one sequential crawl task whose      *)
(* suspension points (await) are the steps of the state machine.           *)
(*                                                                         *)
(* Python values are modelled as follows.                                  *)
(*   - a JSON bool-or-missing (paging.is_end) is one of the strings        *)
(*     "True", "False", "None"; Falsy is Python's `not v`;                 *)
(*   - a payload dict is a record [empty, data, paging]; {} is EmptyDict;  *)
(*   - a comment is a record [comment_id, sub_comment_count];              *)
(*   - an exception is a record [kind, msg, last_kind, last_msg]; the two  *)
(*     last_* fields are tenacity's RetryError.last_attempt;               *)
(*   - a cookie dict is a function from cookie names to values.            *)
(***************************************************************************)
EXTENDS Integers, Sequences, FiniteSets, TLC

(***************************************************************************)
(* Bounds of the model (not program constants).                            *)
(***************************************************************************)
\* Largest number of get() calls (root and child pages together) one crawl makes.
MaxFetches == 3
\* Largest number of update_cookies calls made while a crawl runs.
MaxRefreshes == 1
(***************************************************************************)
(* Program constants.                                                      *)
(***************************************************************************)
\* @retry(stop=stop_after_attempt(3), ...)
MaxAttempts == 3
\* limit: int = 10 in both walks
PageLimit == 10

VARIABLES
    ENABLE_GET_SUB_COMMENTS, \* config.ENABLE_GET_SUB_COMMENTS
    callback,                \* whether a callback sink was passed to the walk
    cookie_dict,             \* self.cookie_dict
    default_headers,         \* self.default_headers
    pc,                      \* where the crawl task is suspended
    result,                  \* get_note_all_comments: result
    is_end,                  \* get_note_all_comments: is_end
    offset,                  \* get_note_all_comments: offset
    comments,                \* get_note_all_comments: comments (the current page)
    all_sub_comments,        \* get_comments_all_sub_comments: all_sub_comments
    idx,                     \* position of the for loop over comments (1-based)
    c_is_end,                \* get_comments_all_sub_comments: is_end
    c_offset,                \* get_comments_all_sub_comments: offset
    sub_comments,            \* get_comments_all_sub_comments: sub_comments
    req,                     \* the request get() handed to request(): url and headers
    attempt,                 \* tenacity's attempt_number of the current request() call
    resp,                    \* the HTTP response (or transport exception) of the last attempt
    ret,                     \* the value request() returned to the walk
    error,                   \* the exception that left the walk (NoError while none)
    sign_calls,              \* how often the current get() call invoked sign()
    served,                  \* pages the server has served (it issues one fresh cursor per page)
    next_id,                 \* the next comment id the server hands out
    trace,                   \* the walk's observable events, in order
    sink,                    \* what the callback sink has been given, in order
    upd_pc,                  \* where the update_cookies task is suspended
    refreshes                \* update_cookies calls completed so far

vars == <<ENABLE_GET_SUB_COMMENTS, callback, cookie_dict, default_headers, pc,
          result, is_end, offset, comments, all_sub_comments, idx, c_is_end,
          c_offset, sub_comments, req, attempt, resp, ret, error, sign_calls,
          served, next_id, trace, sink, upd_pc, refreshes>>

walkVars == <<result, is_end, offset, comments>>
childVars == <<all_sub_comments, idx, c_is_end, c_offset, sub_comments>>
configVars == <<ENABLE_GET_SUB_COMMENTS, callback>>
sessionVars == <<configVars, cookie_dict, default_headers>>
refreshVars == <<upd_pc, refreshes>>
serverVars == <<served, next_id>>
transportVars == <<req, attempt, resp, sign_calls>>

(***************************************************************************)
(* Python truthiness of paging_info.get("is_end").                         *)
(***************************************************************************)
\* a loop test that takes a missing is_end for the end
FalsyOnlyFalse(v) == v = "False"

\* `while not is_end`: False and a missing value (None) both keep the loop going
Falsy(v) == v \in {"False", "None"}

(***************************************************************************)
(* Payloads, comments, responses.                                          *)
(***************************************************************************)
NoPaging == [offset |-> "", is_end |-> "None"]

\* the dict {} that request() returns for a 404, and a 200 whose JSON is {}
EmptyDict == [empty |-> TRUE, data |-> <<>>, paging |-> NoPaging]

Comment(id, n) == [comment_id |-> id, sub_comment_count |-> n]

\* The cursor the server issues with its k-th page: an opaque string.
OffsetToken(k) == "o" \o ToString(k)

Bodies == {"b1", "b2"}

\* The pages the server is given to answer with, as the sub_comment_count of
\* each comment of the page, in page order: every page of at most two
\* comments, each with or without replies.
PageShapes == {<<>>, <<0>>, <<1>>, <<0, 0>>, <<0, 1>>, <<1, 0>>, <<1, 1>>}

\* Pages of replies: the same lengths; replies are not walked further, so
\* their own counts are left 0.
ReplyShapes == { [i \in 1..Len(s) |-> 0] : s \in PageShapes }

\* The pages the server may answer its k+1-st page with: comments with fresh
\* ids, a fresh cursor, and is_end true, false or absent.
Pages(isRoot, k, id) ==
    { [empty |-> FALSE,
       data |-> [i \in 1..Len(cnt) |-> Comment(id + i - 1, cnt[i])],
       paging |-> [offset |-> OffsetToken(k + 1), is_end |-> e]] :
        e \in {"True", "False", "None"},
        cnt \in IF isRoot THEN PageShapes ELSE ReplyShapes }

\* An HTTP response: status, raw text, and what response.json() makes of the
\* text: json = "ok" (a dict, in payload), "error" (a dict with a truthy
\* "error" field whose message is errmsg) or "malformed" (JSONDecodeError).
\* status 0 stands for client.request() itself raising (timeout, connection).
Response(status, text, json, errmsg, payload) ==
    [status |-> status, text |-> text, json |-> json, errmsg |-> errmsg, payload |-> payload]

NoResp == Response(-1, "", "", "", EmptyDict)

\* Everything the server (or the network) may do to one attempt.
Responses(isRoot, k, id) ==
    { Response(200, "page", "ok", "", p) : p \in Pages(isRoot, k, id) }
      \cup { Response(200, "{}", "ok", "", EmptyDict) }
      \cup { Response(s, b, "malformed", "", EmptyDict) : s \in {403, 500}, b \in Bodies }
      \cup { Response(404, "b1", "malformed", "", EmptyDict) }
      \cup { Response(200, "b1", "malformed", "", EmptyDict) }
      \cup { Response(200, "err", "error", "m1", EmptyDict) }
      \cup { Response(0, "", "", "timeout", EmptyDict) }

(***************************************************************************)
(* Exceptions.                                                             *)
(***************************************************************************)
Exc(kind, msg) == [kind |-> kind, msg |-> msg, last_kind |-> "", last_msg |-> ""]

NoError == Exc("", "")

\* tenacity.RetryError(last_attempt): raised `from` the last attempt's exception
RetryError(e) ==
    [kind |-> "RetryError", msg |-> "RetryError", last_kind |-> e.kind, last_msg |-> e.msg]

\* _pre_headers: raise Exception("d_c0 not found in cookies")
CredentialError == Exc("Exception", "d_c0 not found in cookies")

\* whatever sign() raises
SignError == Exc("SignError", "sign failed")

\* whatever the callback sink raises
CallbackError == Exc("CallbackError", "callback failed")

(***************************************************************************)
(* request(): one attempt, lines 68-95.  The outcome of the attempt is     *)
(* either a returned value or a raised exception.                          *)
(***************************************************************************)
Returned(v) == [raised |-> FALSE, value |-> v, exc |-> NoError]
Raised(e) == [raised |-> TRUE, value |-> EmptyDict, exc |-> e]

\* request() without the 404 branch of lines 80-81
AttemptOutcomeNo404(r) ==
    IF r.status = 0 THEN Raised(Exc("TransportError", r.errmsg))
    ELSE IF r.status # 200
      THEN IF r.status = 403 THEN Raised(Exc("ForbiddenError", r.text))
           ELSE Raised(Exc("DataFetchError", r.text))
    ELSE IF r.json = "malformed" THEN Raised(Exc("DataFetchError", r.text))
    ELSE IF r.json = "error" THEN Raised(Exc("DataFetchError", r.errmsg))
    ELSE Returned(r.payload)

AttemptOutcome(r) ==
    IF r.status = 0 THEN Raised(Exc("TransportError", r.errmsg))
    ELSE IF r.status # 200
      THEN IF r.status = 403 THEN Raised(Exc("ForbiddenError", r.text))
           ELSE IF r.status = 404 THEN Returned(EmptyDict)
           ELSE Raised(Exc("DataFetchError", r.text))
    ELSE IF r.json = "malformed" THEN Raised(Exc("DataFetchError", r.text))
    ELSE IF r.json = "error" THEN Raised(Exc("DataFetchError", r.errmsg))
    ELSE Returned(r.payload)

(***************************************************************************)
(* tenacity, as configured on line 55: retry on every exception (the       *)
(* default retry=retry_if_exception_type()), stop after MaxAttempts, and,  *)
(* reraise being left False, raise RetryError once stopped.                *)
(***************************************************************************)
ShouldRetry(e) == TRUE

\* a decorator that stops one attempt late
StopAfterOneMore(n) == n >= MaxAttempts + 1

StopAfterAttempt(n) == n >= MaxAttempts

RetryExhausted(e) == RetryError(e)

(***************************************************************************)
(* The extractor (media_platform/zhihu/help.py, ZhiHuJsonExtractor), which *)
(* the walks use as an opaque collaborator.                                *)
(***************************************************************************)
ExtractOffset(paging_info) == paging_info.offset

ExtractComments(data) == data

\* sign(url, cookie) of help.py: an opaque function of its two arguments
Sign(url, cookie) == [x_zst_81 |-> <<"zst", cookie>>, x_zse_96 |-> <<"zse", url, cookie>>]

(***************************************************************************)
(* utils.convert_cookies: a cookie collection as (header string, dict).    *)
(* The two collections of the model: one with d_c0, one without.           *)
(***************************************************************************)
CookieCollections == {"with_d_c0", "without_d_c0"}

\* the collections the browser context may hold when update_cookies reads
\* it: a login with another d_c0 as well
BrowserCookieCollections == CookieCollections \cup {"with_d_c0_v2"}

ConvertCookies(c) ==
    IF c = "with_d_c0"
      THEN [cookie_str |-> "d_c0=v1; z_c0=t1", cookie_dict |-> [n \in {"d_c0", "z_c0"} |-> IF n = "d_c0" THEN "v1" ELSE "t1"]]
    ELSE IF c = "with_d_c0_v2"
      THEN [cookie_str |-> "d_c0=v2; z_c0=t2", cookie_dict |-> [n \in {"d_c0", "z_c0"} |-> IF n = "d_c0" THEN "v2" ELSE "t2"]]
      ELSE [cookie_str |-> "z_c0=t1", cookie_dict |-> [n \in {"z_c0"} |-> "t1"]]

(***************************************************************************)
(* URLs.  final_uri = uri + "?" + urlencode(params); the request goes to   *)
(* ZHIHU_URL + final_uri.                                                  *)
(***************************************************************************)
ContentId == "content1"
ContentType == "answer"

\* get_root_comments, lines 213-219
RootCommentsUri(off) ==
    [endpoint |-> "root_comments", content_type |-> ContentType, content_id |-> ContentId,
     root_comment_id |-> 0, order |-> "sort", offset |-> off, limit |-> PageLimit]

\* get_child_comments, lines 234-240
ChildCommentsUri(root_comment_id, off) ==
    [endpoint |-> "child_comment", content_type |-> "", content_id |-> "",
     root_comment_id |-> root_comment_id, order |-> "sort", offset |-> off, limit |-> PageLimit]

\* d_c0 is the value _pre_headers read from self.cookie_dict for this request
NoReq == [url |-> RootCommentsUri(""), headers |-> [cookie |-> "", x_zst_81 |-> <<>>, x_zse_96 |-> <<>>],
          d_c0 |-> "", sent |-> FALSE]

\* _pre_headers, lines 49-53: a copy of the default headers plus the signature
PreHeaders(url) ==
    LET sign_res == Sign(url, default_headers.cookie)
    IN  [cookie |-> default_headers.cookie,
         x_zst_81 |-> sign_res.x_zst_81,
         x_zse_96 |-> sign_res.x_zse_96]

(***************************************************************************)
(* Events of the trace.                                                    *)
(*   fetch: a page request is handed to request() (walk, parent, offset)   *)
(*   page:  the walk read a non-empty payload (extracted offset, is_end,   *)
(*          comments)                                                      *)
(*   empty: the walk read an empty payload                                 *)
(*   sleep: the walk awaited asyncio.sleep(crawl_interval)                 *)
(* parent is the root comment whose replies are walked, 0 in the root walk.*)
(***************************************************************************)
Event(e, walk, parent, off, end, data) ==
    [e |-> e, walk |-> walk, parent |-> parent, offset |-> off, is_end |-> end, data |-> data]

Fetches == { i \in DOMAIN trace : trace[i].e = "fetch" }

(***************************************************************************)
(* Initial state: a client constructed with the headers and cookies of one *)
(* cookie collection, a configuration, and a walk about to be started with *)
(* or without a callback sink.                                             *)
(***************************************************************************)
Init ==
    /\ ENABLE_GET_SUB_COMMENTS \in BOOLEAN
    /\ callback \in BOOLEAN
    /\ \E c \in CookieCollections :
         /\ cookie_dict = ConvertCookies(c).cookie_dict
         /\ default_headers = [cookie |-> ConvertCookies(c).cookie_str]
    /\ pc = "start"
    /\ result = <<>>
    /\ is_end = "False"
    /\ offset = ""
    /\ comments = <<>>
    /\ all_sub_comments = <<>>
    /\ idx = 0
    /\ c_is_end = "False"
    /\ c_offset = ""
    /\ sub_comments = <<>>
    /\ req = NoReq
    /\ attempt = 0
    /\ resp = NoResp
    /\ ret = EmptyDict
    /\ error = NoError
    /\ sign_calls = 0
    /\ served = 0
    /\ next_id = 1
    /\ trace = <<>>
    /\ sink = <<>>
    /\ upd_pc = "idle"
    /\ refreshes = 0

(***************************************************************************)
(* An exception leaves the walk: neither walk has a try/except, so it      *)
(* propagates to the caller of get_note_all_comments.                      *)
(***************************************************************************)
\* a walk that catches the exception and goes on with its next page
AbortCaught(e) ==
    /\ pc' = "root_loop"
    /\ error' = e

Abort(e) ==
    /\ pc' = "failed"
    /\ error' = e

\* a _pre_headers without the d_c0 check
NeverMissingD_c0(d) == FALSE

\* _pre_headers, lines 46-47: d_c0 = self.cookie_dict.get("d_c0");
\* if not d_c0: the cookie is absent or its value is empty
MissingD_c0(d) == "d_c0" \notin DOMAIN d \/ d["d_c0"] = ""

\* a _pre_headers that writes the signature into self.default_headers
DefaultHeadersSignedInPlace(url) == PreHeaders(url)

\* _pre_headers, line 50: headers = self.default_headers.copy(); the
\* signature goes into the copy and self.default_headers stays as it is
DefaultHeadersAfterSigning(url) == default_headers

\* a get() whose signing ran under the retry decorator
GetRaisesRetryError(e) == RetryError(e)

\* get(), line 111: what _pre_headers raises leaves get() as it is; the call
\* is outside request() and so outside the retry decorator.
GetRaises(e) == e

(***************************************************************************)
(* get(uri, params), lines 108-112, up to the call of request():           *)
(* _pre_headers checks d_c0 (lines 46-48), then calls sign (line 49),      *)
(* which may raise; otherwise the signed headers are built and request()   *)
(* starts its first attempt.  after is where the caller continues.         *)
(***************************************************************************)
Get(url, ev) ==
    /\ resp' = NoResp
    /\ IF MissingD_c0(cookie_dict)
         THEN /\ Abort(GetRaises(CredentialError))
              /\ sign_calls' = 0
              /\ attempt' = 0
              /\ UNCHANGED <<req, trace, default_headers>>
         ELSE \E signed \in BOOLEAN :
                /\ sign_calls' = 1
                /\ IF ~signed
                     THEN /\ Abort(GetRaises(SignError))
                          /\ attempt' = 0
                          /\ UNCHANGED <<req, trace, default_headers>>
                     ELSE /\ req' = [url |-> url, headers |-> PreHeaders(url),
                                     d_c0 |-> cookie_dict["d_c0"], sent |-> TRUE]
                          /\ default_headers' = DefaultHeadersAfterSigning(url)
                          /\ attempt' = 1
                          /\ pc' = "request"
                          /\ trace' = Append(trace, ev)
                          /\ UNCHANGED error

(***************************************************************************)
(* request(), lines 56-95, one attempt under the retry decorator: the      *)
(* server answers; a returned value goes back to the walk that called      *)
(* get() and the retry state is discarded; a raised exception is retried   *)
(* after the fixed wait, or, once tenacity stops, leaves request() as      *)
(* RetryExhausted.                                                         *)
(***************************************************************************)
HttpAttempt ==
    /\ pc = "request"
    /\ \E r \in Responses(req.url.endpoint = "root_comments", served, next_id) :
         LET o == AttemptOutcome(r)
         IN  /\ resp' = r
             /\ IF r.status = 200 /\ r.json = "ok" /\ ~r.payload.empty
                  THEN /\ served' = served + 1
                       /\ next_id' = next_id + Len(r.payload.data)
                  ELSE UNCHANGED serverVars
             /\ IF ~o.raised
                  THEN /\ ret' = o.value
                       /\ attempt' = 0
                       /\ pc' = IF req.url.endpoint = "root_comments"
                                  THEN "root_page" ELSE "child_page"
                       /\ UNCHANGED error
                  ELSE IF ShouldRetry(o.exc) /\ ~StopAfterAttempt(attempt)
                         THEN /\ pc' = "retry_wait"
                              /\ UNCHANGED <<ret, error, attempt>>
                         ELSE /\ Abort(RetryExhausted(o.exc))
                              /\ UNCHANGED <<ret, attempt>>
    /\ UNCHANGED <<refreshVars, sessionVars, walkVars, childVars, req, sign_calls, trace, sink>>

\* a retry that signs the request again for every attempt
RetryWaitSignAgain ==
    /\ pc = "retry_wait"
    /\ attempt' = attempt + 1
    /\ resp' = NoResp
    /\ req' = [req EXCEPT !.headers = PreHeaders(req.url)]
    /\ pc' = "request"
    /\ UNCHANGED <<refreshVars, sessionVars, walkVars, childVars, serverVars, ret,
                   error, sign_calls, trace, sink>>

\* wait_fixed(1), then the next attempt of the same request; the failed
\* attempt's response is gone
RetryWait ==
    /\ pc = "retry_wait"
    /\ attempt' = attempt + 1
    /\ resp' = NoResp
    /\ pc' = "request"
    /\ UNCHANGED <<refreshVars, sessionVars, walkVars, childVars, serverVars, req, ret,
                   error, sign_calls, trace, sink>>

(***************************************************************************)
(* get_note_all_comments, lines 254-276.                                   *)
(***************************************************************************)
\* lines 254-257
RootStart ==
    /\ pc = "start"
    /\ result' = <<>>
    /\ is_end' = "False"
    /\ offset' = ""
    /\ pc' = "root_loop"
    /\ UNCHANGED <<refreshVars, sessionVars, comments, childVars, serverVars, transportVars,
                   ret, error, trace, sink>>

\* a walk that requests every root page with the initial offset
RootRequestOffsetInitial == ""

\* line 259: the offset the next root page is requested with
RootRequestOffset == offset

\* lines 258-259: while not is_end: get_root_comments(..., offset, limit)
RootFetch ==
    /\ pc = "root_loop"
    /\ Falsy(is_end)
    /\ Cardinality(Fetches) < MaxFetches
    /\ Get(RootCommentsUri(RootRequestOffset),
           Event("fetch", "root", 0, RootRequestOffset, "", <<>>))
    /\ UNCHANGED <<refreshVars, configVars, cookie_dict, walkVars, childVars,
                   serverVars, ret, sink>>

\* lines 258, 276: the loop condition fails, return result
RootReturn ==
    /\ pc = "root_loop"
    /\ ~Falsy(is_end)
    /\ pc' = "done"
    /\ UNCHANGED <<refreshVars, sessionVars, walkVars, childVars, serverVars, transportVars,
                   ret, error, trace, sink>>

\* line 260: if not root_comment_res
RootPayloadEmpty(res) == res.empty

\* a walk that goes on to the next iteration on an empty payload
RootOnEmptyContinue == "root_loop"

\* line 261: break, which leaves the loop for `return result`
RootOnEmpty == "done"

\* lines 260-268: read the page; an empty payload or an empty extraction
\* breaks out of the loop to `return result`.
RootPage ==
    /\ pc = "root_page"
    /\ resp' = NoResp
    /\ IF RootPayloadEmpty(ret)
         THEN /\ pc' = RootOnEmpty
              /\ trace' = Append(trace, Event("empty", "root", 0, "", "", <<>>))
              /\ UNCHANGED <<is_end, offset, comments>>
         ELSE LET paging_info == ret.paging
                  extracted == ExtractComments(ret.data)
              IN  /\ is_end' = paging_info.is_end
                  /\ offset' = ExtractOffset(paging_info)
                  /\ comments' = extracted
                  /\ trace' = Append(trace, Event("page", "root", 0,
                                 ExtractOffset(paging_info), paging_info.is_end, extracted))
                  /\ pc' = IF extracted = <<>> THEN "done" ELSE "root_callback"
    /\ UNCHANGED <<refreshVars, sessionVars, result, childVars, serverVars, req, attempt, ret,
                   error, sign_calls, sink>>

\* a walk that hands the sink everything collected so far
RootCallbackArgumentAll == result \o comments

\* line 271: what the sink is called with: the comments of this page
RootCallbackArgument == comments

\* lines 270-271: if callback: await callback(comments); the sink may raise
RootCallback ==
    /\ pc = "root_callback"
    /\ IF callback
         THEN \E ok \in BOOLEAN :
                IF ok THEN /\ sink' = Append(sink, RootCallbackArgument)
                           /\ pc' = "root_extend"
                           /\ UNCHANGED error
                      ELSE /\ Abort(CallbackError)
                           /\ UNCHANGED sink
         ELSE /\ pc' = "root_extend"
              /\ UNCHANGED <<sink, error>>
    /\ UNCHANGED <<refreshVars, sessionVars, walkVars, childVars, serverVars, transportVars,
                   ret, trace>>

\* a walk that puts each page in front of the earlier ones
RootExtendInFront(res, page) == page \o res

\* line 273: result.extend(comments)
RootExtend(res, page) == res \o page

\* lines 291-292: if not config.ENABLE_GET_SUB_COMMENTS: return []
SubCommentsDisabled == ~ENABLE_GET_SUB_COMMENTS

\* lines 273-274 and 291-294: extend the result, then enter
\* get_comments_all_sub_comments, which returns [] at once when the
\* configuration disables sub-comments.
RootAccumulate ==
    /\ pc = "root_extend"
    /\ result' = RootExtend(result, comments)
    /\ IF SubCommentsDisabled
         THEN /\ pc' = "root_sleep"
              /\ UNCHANGED childVars
         ELSE /\ all_sub_comments' = <<>>
              /\ idx' = 1
              /\ pc' = "child_for"
              /\ UNCHANGED <<c_is_end, c_offset, sub_comments>>
    /\ UNCHANGED <<refreshVars, sessionVars, is_end, offset, comments, serverVars, transportVars,
                   ret, error, trace, sink>>

\* a walk that sleeps only when another page is to be fetched
RootSleepUnlessEnded ==
    /\ pc = "root_sleep"
    /\ trace' = IF Falsy(is_end)
                  THEN Append(trace, Event("sleep", "root", 0, "", "", <<>>))
                  ELSE trace
    /\ pc' = "root_loop"
    /\ UNCHANGED <<refreshVars, sessionVars, walkVars, childVars, serverVars, transportVars,
                   ret, error, sink>>

\* line 275: await asyncio.sleep(crawl_interval), then back to the loop test
RootSleep ==
    /\ pc = "root_sleep"
    /\ trace' = Append(trace, Event("sleep", "root", 0, "", "", <<>>))
    /\ pc' = "root_loop"
    /\ UNCHANGED <<refreshVars, sessionVars, walkVars, childVars, serverVars, transportVars,
                   ret, error, sink>>

(***************************************************************************)
(* get_comments_all_sub_comments, lines 291-319, called from line 274 with *)
(* the comments of the current root page.                                  *)
(***************************************************************************)
\* a for loop that goes through the page from its last comment
ParentFromLast == comments[Len(comments) + 1 - idx]

\* line 295: for comment in comments: the parent comment the loop is at
Parent == comments[idx]

\* a for loop that walks the replies of every comment
NoRepliesNever(c) == FALSE

\* line 296: if comment.sub_comment_count == 0: continue
NoReplies(c) == c.sub_comment_count = 0

\* a child walk that starts from the cursor of the root walk
ChildInitialOffsetOfRoot == offset

\* line 300: offset = "" at the start of each parent's walk
ChildInitialOffset == ""

\* lines 295-301, 319: the for loop: past the last comment the function
\* returns (to line 275 of the root walk); a comment without replies is
\* skipped; otherwise its page walk starts with is_end False and offset "".
ChildFor ==
    /\ pc = "child_for"
    /\ IF idx > Len(comments)
         THEN /\ pc' = "root_sleep"
              /\ UNCHANGED childVars
         ELSE IF NoReplies(Parent)
           THEN /\ idx' = idx + 1
                /\ pc' = "child_for"
                /\ UNCHANGED <<all_sub_comments, c_is_end, c_offset, sub_comments>>
           ELSE /\ c_is_end' = "False"
                /\ c_offset' = ChildInitialOffset
                /\ pc' = "child_loop"
                /\ UNCHANGED <<all_sub_comments, idx, sub_comments>>
    /\ UNCHANGED <<refreshVars, sessionVars, walkVars, serverVars, transportVars, ret, error,
                   trace, sink>>

\* line 303: the offset the next child page is requested with
ChildRequestOffset == c_offset

\* lines 302-303: while not is_end: get_child_comments(parent.comment_id, offset, limit)
ChildFetch ==
    /\ pc = "child_loop"
    /\ Falsy(c_is_end)
    /\ Cardinality(Fetches) < MaxFetches
    /\ Get(ChildCommentsUri(Parent.comment_id, ChildRequestOffset),
           Event("fetch", "child", Parent.comment_id, ChildRequestOffset, "", <<>>))
    /\ UNCHANGED <<refreshVars, configVars, cookie_dict, walkVars, childVars,
                   serverVars, ret, sink>>

\* line 302: the loop condition fails: on to the next parent comment
ChildEnd ==
    /\ pc = "child_loop"
    /\ ~Falsy(c_is_end)
    /\ idx' = idx + 1
    /\ pc' = "child_for"
    /\ UNCHANGED <<refreshVars, sessionVars, walkVars, all_sub_comments, c_is_end, c_offset,
                   sub_comments, serverVars, transportVars, ret, error, trace, sink>>

\* line 304: if not child_comment_res
ChildPayloadEmpty(res) == res.empty

\* lines 304-312: read the page; an empty payload or an empty extraction
\* breaks out of the while loop, on to the next parent comment.
ChildPage ==
    /\ pc = "child_page"
    /\ resp' = NoResp
    /\ IF ChildPayloadEmpty(ret)
         THEN /\ idx' = idx + 1
              /\ pc' = "child_for"
              /\ trace' = Append(trace, Event("empty", "child", Parent.comment_id, "", "", <<>>))
              /\ UNCHANGED <<c_is_end, c_offset, sub_comments>>
         ELSE LET paging_info == ret.paging
                  extracted == ExtractComments(ret.data)
              IN  /\ c_is_end' = paging_info.is_end
                  /\ c_offset' = ExtractOffset(paging_info)
                  /\ sub_comments' = extracted
                  /\ trace' = Append(trace, Event("page", "child", Parent.comment_id,
                                 ExtractOffset(paging_info), paging_info.is_end, extracted))
                  /\ IF extracted = <<>>
                       THEN /\ idx' = idx + 1
                            /\ pc' = "child_for"
                       ELSE /\ pc' = "child_callback"
                            /\ UNCHANGED idx
    /\ UNCHANGED <<refreshVars, sessionVars, walkVars, all_sub_comments, serverVars, req, attempt,
                   ret, error, sign_calls, sink>>

\* lines 314-315: if callback: await callback(sub_comments); the sink may raise
ChildCallback ==
    /\ pc = "child_callback"
    /\ IF callback
         THEN \E ok \in BOOLEAN :
                IF ok THEN /\ sink' = Append(sink, sub_comments)
                           /\ pc' = "child_extend"
                           /\ UNCHANGED error
                      ELSE /\ Abort(CallbackError)
                           /\ UNCHANGED sink
         ELSE /\ pc' = "child_extend"
              /\ UNCHANGED <<sink, error>>
    /\ UNCHANGED <<refreshVars, sessionVars, walkVars, childVars, serverVars, transportVars,
                   ret, trace>>

\* line 317: all_sub_comments.extend(sub_comments)
ChildExtend(res, page) == res \o page

ChildAccumulate ==
    /\ pc = "child_extend"
    /\ all_sub_comments' = ChildExtend(all_sub_comments, sub_comments)
    /\ pc' = "child_sleep"
    /\ UNCHANGED <<refreshVars, sessionVars, walkVars, idx, c_is_end, c_offset, sub_comments,
                   serverVars, transportVars, ret, error, trace, sink>>

\* line 318: await asyncio.sleep(crawl_interval), then back to the loop test
ChildSleep ==
    /\ pc = "child_sleep"
    /\ trace' = Append(trace, Event("sleep", "child", Parent.comment_id, "", "", <<>>))
    /\ pc' = "child_loop"
    /\ UNCHANGED <<refreshVars, sessionVars, walkVars, childVars, serverVars, transportVars,
                   ret, error, sink>>

Next ==
    \/ RootStart
    \/ RootFetch
    \/ RootReturn
    \/ HttpAttempt
    \/ RetryWait
    \/ RootPage
    \/ RootCallback
    \/ RootAccumulate
    \/ RootSleep
    \/ ChildFor
    \/ ChildFetch
    \/ ChildEnd
    \/ ChildPage
    \/ ChildCallback
    \/ ChildAccumulate
    \/ ChildSleep

Spec == Init /\ [][Next]_vars

(***************************************************************************)
(* update_cookies, lines 134-145, called by another task of the same event *)
(* loop while a crawl runs.  The coroutine is suspended at one place, the  *)
(* await of browser_context.cookies() on line 143; when it resumes, the    *)
(* conversion and the two assignments of lines 144-145 run without another *)
(* await, so no other task runs between them.  In the same way             *)
(* _pre_headers (lines 46-53) has no await between its reads of            *)
(* self.cookie_dict and self.default_headers.                              *)
(***************************************************************************)
\* line 143, up to the await
UpdateCookiesCall ==
    /\ upd_pc = "idle"
    /\ refreshes < MaxRefreshes
    /\ upd_pc' = "awaiting"
    /\ UNCHANGED <<sessionVars, walkVars, childVars, serverVars, transportVars,
                   pc, ret, error, trace, sink, refreshes>>

\* an update_cookies that is suspended again between its two assignments:
\* this step assigns the header only
UpdateCookiesAssignHeaderOnly ==
    /\ upd_pc = "awaiting"
    /\ \E c \in BrowserCookieCollections :
         default_headers' = [default_headers EXCEPT !.cookie = ConvertCookies(c).cookie_str]
    /\ upd_pc' = "idle"
    /\ refreshes' = refreshes + 1
    /\ UNCHANGED <<configVars, cookie_dict, walkVars, childVars, serverVars,
                   transportVars, pc, ret, error, trace, sink>>

\* lines 143-145, from the resumption on: the browser's cookies are
\* converted and both fields assigned
UpdateCookiesAssign ==
    /\ upd_pc = "awaiting"
    /\ \E c \in BrowserCookieCollections :
         /\ default_headers' = [default_headers EXCEPT !.cookie = ConvertCookies(c).cookie_str]
         /\ cookie_dict' = ConvertCookies(c).cookie_dict
    /\ upd_pc' = "idle"
    /\ refreshes' = refreshes + 1
    /\ UNCHANGED <<configVars, walkVars, childVars, serverVars, transportVars,
                   pc, ret, error, trace, sink>>

\* request() against a server whose pages hold at most one comment
SessionHttpAttempt ==
    /\ HttpAttempt
    /\ Len(resp'.payload.data) <= 1

\* a root walk without sub-comments and without a sink, next to a task
\* that refreshes the session
SessionInit ==
    /\ Init
    /\ ~ENABLE_GET_SUB_COMMENTS
    /\ ~callback

SessionNext ==
    \/ RootStart
    \/ RootFetch
    \/ RootReturn
    \/ SessionHttpAttempt
    \/ RetryWait
    \/ RootPage
    \/ RootCallback
    \/ RootAccumulate
    \/ RootSleep
    \/ UpdateCookiesCall
    \/ UpdateCookiesAssign

SpecSession == SessionInit /\ [][SessionNext]_vars

(***************************************************************************)
(* The crawl under the event loop's scheduling: a coroutine that can take  *)
(* its next step does take it (every await of the crawl completes: the     *)
(* request by an answer or the timeout, the sleeps by the clock).          *)
(***************************************************************************)
\* a crawl with a callback sink: without one the walks take the same steps,
\* less the call of the sink
FairInit ==
    /\ Init
    /\ callback

SpecFair == FairInit /\ [][Next]_vars /\ WF_vars(Next)

(***************************************************************************)
(* Type invariant.                                                         *)
(***************************************************************************)
TypeOK ==
    /\ pc \in {"start", "root_loop", "request", "retry_wait", "root_page",
               "root_callback", "root_extend", "root_sleep", "child_for",
               "child_loop", "child_page", "child_callback", "child_extend",
               "child_sleep", "done", "failed"}
    /\ attempt \in 0..MaxAttempts
    /\ is_end \in {"True", "False", "None"}
    /\ c_is_end \in {"True", "False", "None"}
    /\ (error # NoError) <=> (pc = "failed")

(***************************************************************************)
(* Reading the trace.                                                      *)
(***************************************************************************)
\* the events of one walk: the root walk is ("root", 0), the walk of the
\* replies of root comment p is ("child", p)
Of(walk, parent, kind) ==
    { i \in DOMAIN trace :
        trace[i].walk = walk /\ trace[i].parent = parent /\ trace[i].e = kind }

Walks == { <<trace[i].walk, trace[i].parent>> : i \in DOMAIN trace }

RootFetches == Of("root", 0, "fetch")
RootPages == Of("root", 0, "page")
RootEmpties == Of("root", 0, "empty")
ChildPages == { i \in DOMAIN trace : trace[i].walk = "child" /\ trace[i].e = "page" }

Max(S) == CHOOSE x \in S : \A y \in S : y <= x

\* the comments of the pages among the first n events that are in S, in order
RECURSIVE ConcatData(_, _)
ConcatData(n, S) ==
    IF n = 0 THEN <<>>
    ELSE ConcatData(n - 1, S) \o (IF n \in S THEN trace[n].data ELSE <<>>)

\* the child pages read since the latest root page, i.e. by the current call
\* of get_comments_all_sub_comments
CurrentChildPages == { i \in ChildPages : \A j \in RootPages : j < i }

(***************************************************************************)
(* C1.  In the root walk the first page is requested with offset "" and    *)
(* every later page with exactly the offset extracted from the root page   *)
(* read just before it, and no root page is requested after a root page    *)
(* marked is_end = true.                                                   *)
(***************************************************************************)
C1_OffsetsThreaded ==
    /\ \A i \in RootFetches :
         LET before == { j \in RootPages : j < i }
         IN  trace[i].offset = IF before = {} THEN "" ELSE trace[Max(before)].offset
    /\ \A j \in RootPages :
         trace[j].is_end = "True" => \A i \in RootFetches : i < j
    /\ (pc \in {"request", "retry_wait"} /\ req.url.endpoint = "root_comments")
         => req.url.offset = trace[Max(RootFetches)].offset

\* two root pages were requested, the second with the first one's cursor, and
\* the walk returned after the page marked is_end = true
C1_Witness ==
    /\ pc = "done"
    /\ Cardinality(RootFetches) = 2
    /\ Cardinality(RootPages) = 2
    /\ trace[Max(RootFetches)].offset # ""
    /\ trace[Max(RootPages)].is_end = "True"
    /\ trace[Max(RootPages)].data # <<>>

(***************************************************************************)
(* C2.  What the root walk returns is the concatenation, in page order, of *)
(* the comments extracted from the root pages it fetched, with one root    *)
(* request per page read, and no reply fetched by the child walk is in it. *)
(***************************************************************************)
C2_ResultIsConcatenation ==
    pc = "done" =>
      /\ result = ConcatData(Len(trace), RootPages)
      /\ Cardinality(RootFetches) = Cardinality(RootPages \cup RootEmpties)
      /\ \A i \in ChildPages : \A k \in DOMAIN trace[i].data : \A m \in DOMAIN result :
           result[m].comment_id # trace[i].data[k].comment_id

\* pages [c1, c2] and [c4] give [c1, c2, c4], with a page of replies [c3]
\* fetched in between
C2_Witness ==
    /\ pc = "done"
    /\ Cardinality(RootFetches) = 2
    /\ Len(result) = 3
    /\ result[1].comment_id < result[2].comment_id
    /\ result[2].comment_id < result[3].comment_id
    /\ \E i \in ChildPages : trace[i].data # <<>>


(***************************************************************************)
(* C3.  A 403 response is never retried: after an attempt answered 403,    *)
(* request() makes no further attempt.                                     *)
(***************************************************************************)
C3_ForbiddenNeverRetried ==
    /\ pc = "retry_wait" => resp.status # 403
    /\ (pc = "failed" /\ resp.status = 403) => attempt = 1

(***************************************************************************)
(* C4.  When the server answers 403, what the caller finally receives is a *)
(* ForbiddenError carrying the response body, and no failure received for  *)
(* another non-success status is of that kind.                             *)
(***************************************************************************)
C4_ForbiddenSurfaces ==
    /\ (pc = "failed" /\ resp.status = 403)
         => (error.kind = "ForbiddenError" /\ error.msg = resp.text)
    /\ (pc = "failed" /\ resp.status \notin {-1, 0, 200, 403})
         => error.kind # "ForbiddenError"

(***************************************************************************)
(* C5.  As claimed: a failure of the signer is retried, so that when it    *)
(* reaches the caller the signer has been invoked three times.             *)
(***************************************************************************)
SignerFailed == error.kind = "SignError" \/ error.last_kind = "SignError"

C5_SignerRetried ==
    (pc = "failed" /\ SignerFailed) => (sign_calls = 3 /\ error = SignError)

(***************************************************************************)
(* C5, amended.  When the signer raises, get() fails at once with the      *)
(* signer's own error: the signer has been invoked once, no HTTP attempt   *)
(* has been made and no request was handed to request().                   *)
(***************************************************************************)
C5_SignerFailsFast ==
    (pc = "failed" /\ SignerFailed) =>
      /\ error = SignError
      /\ sign_calls = 1
      /\ attempt = 0
      /\ resp = NoResp

\* the signer raised on the request for the second root page
C5_Witness ==
    /\ pc = "failed"
    /\ error = SignError
    /\ sign_calls = 1
    /\ Cardinality(RootPages) = 1

(***************************************************************************)
(* C6.  As claimed: within one walk a delay lies between every two         *)
(* consecutive page fetches, and none follows the final page of the walk:  *)
(* once the crawl has returned, every delay of a walk is followed by a     *)
(* later page fetch of the same walk.                                      *)
(***************************************************************************)
DelayBetweenFetches ==
    \A w \in Walks :
      \A i, j \in Of(w[1], w[2], "fetch") :
        i < j => \E k \in Of(w[1], w[2], "sleep") : i < k /\ k < j

C6_NoDelayAfterFinalPage ==
    /\ DelayBetweenFetches
    /\ pc = "done" =>
         \A w \in Walks :
           \A k \in Of(w[1], w[2], "sleep") :
             \E j \in Of(w[1], w[2], "fetch") : k < j

(***************************************************************************)
(* C6, amended.  Within one walk a delay lies between every two            *)
(* consecutive page fetches; once the crawl has returned, every page that  *)
(* yielded comments, the final page marked is_end = true included, is      *)
(* followed by one delay of its walk before the walk's next fetch, and a   *)
(* page that ended the walk with an empty payload or an empty extraction   *)
(* is followed by none.                                                    *)
(***************************************************************************)
\* the events of walk w after event i and before the walk's next fetch
UntilNextFetch(w, i, kind) ==
    { k \in Of(w[1], w[2], kind) :
        /\ i < k
        /\ \A j \in Of(w[1], w[2], "fetch") : i < j => k < j }

C6_DelayAfterEveryYieldingPage ==
    /\ DelayBetweenFetches
    /\ pc = "done" =>
         \A w \in Walks :
           /\ \A i \in Of(w[1], w[2], "page") :
                Cardinality(UntilNextFetch(w, i, "sleep"))
                  = IF trace[i].data # <<>> THEN 1 ELSE 0
           /\ \A i \in Of(w[1], w[2], "empty") :
                UntilNextFetch(w, i, "sleep") = {}

\* the crawl returned right after the delay that followed the root page
\* marked is_end = true, and a walk of replies ended with a delay as well
C6_Witness ==
    /\ pc = "done"
    /\ trace[Len(trace)].e = "sleep"
    /\ trace[Len(trace)].walk = "root"
    /\ trace[Max(RootPages)].is_end = "True"
    /\ Cardinality(RootFetches) = 2
    /\ \E i \in ChildPages :
         /\ trace[i].is_end = "True"
         /\ trace[i + 1].e = "sleep"
         /\ trace[i + 1].walk = "child"


(***************************************************************************)
(* C7.  One request() call makes at most 3 HTTP attempts: an attempt that  *)
(* fails with a fetch error is followed by another one only while fewer    *)
(* than 3 have been made, and the call fails to its caller only after the  *)
(* third.                                                                  *)
(***************************************************************************)
FetchErrorResponse(r) ==
    \/ r.status \notin {-1, 0, 200, 403, 404}
    \/ r.status = 200 /\ r.json \in {"malformed", "error"}

C7_AtMostThreeAttempts ==
    /\ attempt <= 3
    /\ pc = "retry_wait" => attempt < 3
    /\ (pc = "failed" /\ FetchErrorResponse(resp)) => attempt = 3
    /\ (FetchErrorResponse(resp) /\ attempt < 3) => pc = "retry_wait"

\* three attempts were answered with fetch errors and the call failed
C7_Witness ==
    /\ pc = "failed"
    /\ attempt = 3
    /\ FetchErrorResponse(resp)

(***************************************************************************)
(* C8.  When all 3 attempts of a request() call fail, the caller receives  *)
(* the failure the last attempt raised: same kind, same message.           *)
(***************************************************************************)
C8_LastFailurePropagates ==
    (pc = "failed" /\ attempt = 3) => error = AttemptOutcome(resp).exc

(***************************************************************************)
(* C9.  A 404 is handled as an empty payload: the attempt returns the      *)
(* empty payload to the walk, raising nothing and with no retry, and the   *)
(* walk that reads it ends normally: the root walk returns what it has     *)
(* accumulated, the walk of a comment's replies moves on to the next       *)
(* comment, exactly as for a 200 whose payload is empty.                   *)
(***************************************************************************)
NotFoundReturnsEmpty ==
    resp.status = 404 =>
      /\ pc \in {"root_page", "child_page"}
      /\ ret = EmptyDict
      /\ attempt = 0
      /\ error = NoError

NotFoundEndsWalk ==
    /\ (pc = "root_page" /\ resp.status = 404)
         => (pc' = "done" /\ error' = NoError /\ result' = result)
    /\ (pc = "child_page" /\ resp.status = 404)
         => (/\ pc' = "child_for"
             /\ idx' = idx + 1
             /\ error' = NoError
             /\ all_sub_comments' = all_sub_comments
             /\ result' = result)
    /\ (pc \in {"root_page", "child_page"} /\ resp.status = 404)
         => trace' = Append(trace, [trace'[Len(trace')] EXCEPT !.e = "empty"])

C9_NotFoundIsEmpty == []NotFoundReturnsEmpty /\ [][NotFoundEndsWalk]_vars

\* the second root page was answered 404 and request() returned {}
C9_Witness ==
    /\ pc = "root_page"
    /\ resp.status = 404
    /\ ret = EmptyDict
    /\ Len(result) > 0

(***************************************************************************)
(* C10.  Once a page of a walk came back as an empty payload, the walk     *)
(* requests no further page, and what it has accumulated is exactly the    *)
(* comments of the pages before: the root walk returns them, the walk of   *)
(* replies leaves all_sub_comments as the earlier pages made it.           *)
(***************************************************************************)
C10_EmptyPayloadStopsWalk ==
    /\ \A w \in Walks :
         \A i \in Of(w[1], w[2], "empty") :
           \A j \in Of(w[1], w[2], "fetch") : j < i
    /\ (trace # <<>> /\ trace[Len(trace)].e = "empty" /\ trace[Len(trace)].walk = "root")
         => (/\ pc = "done"
             /\ error = NoError
             /\ result = ConcatData(Len(trace), RootPages))
    /\ (trace # <<>> /\ trace[Len(trace)].e = "empty" /\ trace[Len(trace)].walk = "child")
         => all_sub_comments = ConcatData(Len(trace), CurrentChildPages)

\* the first page of a comment's replies came back empty, and then the second
\* root page came back empty too: the root walk returned its one page of
\* comments
C10_Witness ==
    /\ pc = "done"
    /\ RootEmpties # {}
    /\ Cardinality(RootPages) = 1
    /\ Len(result) > 0
    /\ trace[Len(trace)].e = "empty"
    /\ \E i \in DOMAIN trace : trace[i].e = "empty" /\ trace[i].walk = "child"

(***************************************************************************)
(* C11.  A child-comment request for a parent comment is issued only when  *)
(* ENABLE_GET_SUB_COMMENTS is on and the parent, a comment of a root page  *)
(* read before, has a non-zero sub_comment_count: with the flag off no     *)
(* child request is ever sent, and a parent with a count of 0 never gets   *)
(* one.                                                                    *)
(***************************************************************************)
ChildFetches == { i \in DOMAIN trace : trace[i].walk = "child" /\ trace[i].e = "fetch" }

\* the comments of the root pages read before event i whose id is p
ParentsOf(i, p) ==
    { c \in UNION { { trace[j].data[k] : k \in DOMAIN trace[j].data } :
                      j \in { r \in RootPages : r < i } } : c.comment_id = p }

C11_ChildRequestsGuarded ==
    /\ \A i \in ChildFetches :
         /\ ENABLE_GET_SUB_COMMENTS
         /\ ParentsOf(i, trace[i].parent) # {}
         /\ \A c \in ParentsOf(i, trace[i].parent) : c.sub_comment_count # 0
    /\ (req.sent /\ req.url.endpoint = "child_comment") =>
         /\ ENABLE_GET_SUB_COMMENTS
         /\ \E i \in ChildFetches : trace[i].parent = req.url.root_comment_id

\* the replies of the second comment of a page were requested and those of
\* the first, which has none, were not
C11_Witness ==
    /\ ENABLE_GET_SUB_COMMENTS
    /\ \E j \in RootPages :
         /\ Len(trace[j].data) = 2
         /\ trace[j].data[1].sub_comment_count = 0
         /\ trace[j].data[2].sub_comment_count # 0
         /\ \E i \in ChildFetches : trace[i].parent = trace[j].data[2].comment_id
         /\ \A i \in ChildFetches : trace[i].parent # trace[j].data[1].comment_id
    /\ pc = "done"

(***************************************************************************)
(* C12.  When the cookie mapping has no d_c0 at the time get() is called,  *)
(* the call fails at once with the credential error: no HTTP request is    *)
(* sent, the signer is not invoked and nothing is retried.                 *)
(***************************************************************************)
C12_MissingCredentialFailsFast ==
    ("d_c0" \notin DOMAIN cookie_dict) =>
        /\ Fetches = {}
        /\ ~req.sent
        /\ attempt = 0
        /\ sign_calls = 0
        /\ resp = NoResp
        /\ pc \in {"start", "root_loop", "failed"}
        /\ (pc = "failed") => (error = CredentialError)

\* the first get() of a session without d_c0 has failed
C12_Witness ==
    /\ "d_c0" \notin DOMAIN cookie_dict
    /\ pc = "failed"
    /\ error = CredentialError
    /\ trace = <<>>

(***************************************************************************)
(* C13.  With a callback sink, the sink is called once for every page that *)
(* yielded comments, in the order the pages were read, with exactly that   *)
(* page's comments, and before the page is added to the accumulator: the   *)
(* only yielding page the sink may not have is the latest, while the walk  *)
(* is about to call the sink or the sink's call has raised.  So every      *)
(* comment of result and of all_sub_comments has been given to the sink.   *)
(* Without a sink nothing is delivered.                                    *)
(***************************************************************************)
YieldingPages == { i \in DOMAIN trace : trace[i].e = "page" /\ trace[i].data # <<>> }

\* the comment lists of the yielding pages among the first n events
RECURSIVE PageLists(_)
PageLists(n) ==
    IF n = 0 THEN <<>>
    ELSE IF n \in YieldingPages THEN Append(PageLists(n - 1), trace[n].data)
    ELSE PageLists(n - 1)

SinkPending ==
    \/ pc \in {"root_callback", "child_callback"}
    \/ pc = "failed" /\ error = CallbackError

\* the comments the sink has been given
Delivered == UNION { { sink[a][b] : b \in DOMAIN sink[a] } : a \in DOMAIN sink }

C13_SinkBeforeAccumulator ==
    LET lists == PageLists(Len(trace))
    IN  /\ ~callback => sink = <<>>
        /\ callback =>
              /\ sink = IF SinkPending THEN SubSeq(lists, 1, Len(lists) - 1) ELSE lists
              /\ \A k \in DOMAIN result : result[k] \in Delivered
              /\ \A k \in DOMAIN all_sub_comments : all_sub_comments[k] \in Delivered

\* a root page and a page of replies have both gone to the sink and into
\* the accumulators
C13_Witness ==
    /\ callback
    /\ Len(sink) = 2
    /\ result # <<>>
    /\ all_sub_comments # <<>>
    /\ pc = "done"

(***************************************************************************)
(* C15.  An error that reaches a walk (from a page fetch once request()    *)
(* has given up, from signing, or from the callback sink) aborts it: the   *)
(* step that raises adds no request, delivery or comment; afterwards the   *)
(* crawl is over with that error, and no request is re-issued, no page     *)
(* requested and no sink called.  An error inside the child walk ends the  *)
(* enclosing root walk as well.                                            *)
(***************************************************************************)
ErrorIsFinal ==
    (error # NoError) =>
        /\ pc' = pc
        /\ error' = error
        /\ UNCHANGED <<trace, sink, req, attempt, result, all_sub_comments>>

ErrorStepAddsNothing ==
    (error = NoError /\ error' # NoError) =>
        UNCHANGED <<trace, sink, result, all_sub_comments, req>>

C15_ErrorAbortsWalk ==
    /\ []((error # NoError) => (pc = "failed"))
    /\ [][ErrorIsFinal /\ ErrorStepAddsNothing]_vars

\* a request of the child walk has failed for good, after a root page went
\* to the sink: the crawl is over
C15_Witness ==
    /\ pc = "failed"
    /\ error.kind = "RetryError"
    /\ req.url.endpoint = "child_comment"
    /\ sink # <<>>
    /\ attempt = MaxAttempts

(***************************************************************************)
(* C16.  Requests are made one at a time and in this order: root page k,   *)
(* then, for each comment of page k in page order, all pages of its        *)
(* replies, then root page k+1.  In the trace: between two requests the    *)
(* answer to the first has been read; a child request is for a comment of  *)
(* the latest root page; child requests after one root page follow the     *)
(* order of the comments in it; and when the next root page is requested   *)
(* every comment of the page before that has replies has had its child     *)
(* requests (with sub-comments enabled).                                   *)
(***************************************************************************)
\* the latest root page read before event i (0 when there is none)
LatestRootPage(i) ==
    LET before == { r \in 1..(i - 1) : trace[r].e = "page" /\ trace[r].walk = "root" }
    IN  IF before = {} THEN 0 ELSE Max(before)

\* the position of comment p in the page read at event r (0 when absent)
PositionIn(r, p) ==
    LET at == { k \in DOMAIN trace[r].data : trace[r].data[k].comment_id = p }
    IN  IF at = {} THEN 0 ELSE Max(at)

OneRequestAtATime ==
    /\ \A i \in DOMAIN trace :
          (trace[i].e = "fetch" /\ i < Len(trace)) =>
             /\ trace[i + 1].e \in {"page", "empty"}
             /\ trace[i + 1].walk = trace[i].walk
             /\ trace[i + 1].parent = trace[i].parent
    /\ (pc \in {"request", "retry_wait"}) =>
          /\ trace # <<>>
          /\ trace[Len(trace)].e = "fetch"
          /\ trace[Len(trace)].offset = req.url.offset
          /\ trace[Len(trace)].parent = req.url.root_comment_id

\* the requests made between the root page read at event r and event i
FetchesBetween(r, i) == { j \in (r + 1)..(i - 1) : trace[j].e = "fetch" }

RequestOrder ==
    \A i \in DOMAIN trace :
        (trace[i].e = "fetch") =>
            LET r == LatestRootPage(i)
            IN  IF trace[i].walk = "child"
                  THEN /\ r # 0
                       /\ PositionIn(r, trace[i].parent) # 0
                       /\ \A j \in FetchesBetween(r, i) :
                             /\ trace[j].walk = "child"
                             /\ PositionIn(r, trace[j].parent)
                                   <= PositionIn(r, trace[i].parent)
                  ELSE (r # 0 /\ ENABLE_GET_SUB_COMMENTS) =>
                          \A k \in DOMAIN trace[r].data :
                             (trace[r].data[k].sub_comment_count # 0) =>
                                \E j \in FetchesBetween(r, i) :
                                   /\ trace[j].walk = "child"
                                   /\ trace[j].parent = trace[r].data[k].comment_id

C16_SequentialDepthFirst == OneRequestAtATime /\ RequestOrder

\* root page 1, the replies of its comment, root page 2
C16_Witness ==
    /\ \E i \in RootFetches, j \in ChildFetches, k \in RootFetches : i < j /\ j < k
    /\ pc = "done"

(***************************************************************************)
(* C18.  get() leaves the session as it was: no step of a crawl changes    *)
(* self.default_headers or self.cookie_dict, the default headers never     *)
(* hold the two signature headers, and the signature is in the headers of  *)
(* the request only.                                                       *)
(***************************************************************************)
SessionUntouched ==
    /\ cookie_dict' = cookie_dict
    /\ default_headers' = default_headers

SignatureOnlyInRequest ==
    /\ DOMAIN default_headers = {"cookie"}
    /\ req.sent =>
          /\ req.headers.cookie = default_headers.cookie
          /\ req.headers.x_zst_81 = Sign(req.url, default_headers.cookie).x_zst_81
          /\ req.headers.x_zse_96 = Sign(req.url, default_headers.cookie).x_zse_96

C18_GetLeavesSessionUnchanged ==
    /\ []SignatureOnlyInRequest
    /\ [][SessionUntouched]_vars

\* two get() calls have signed their requests
C18_Witness ==
    /\ Cardinality(Fetches) >= 2
    /\ req.sent
    /\ req.headers.x_zse_96 # <<>>
    /\ DOMAIN default_headers = {"cookie"}
    /\ pc = "done"

(***************************************************************************)
(* C14.  update_cookies is atomic for the get() calls running next to it:  *)
(* whenever another task can run, self.cookie_dict and the cookie header   *)
(* of self.default_headers come from the same cookie collection, and every *)
(* request was checked (d_c0), signed and sent with the mapping and the    *)
(* header string of one collection.                                        *)
(***************************************************************************)
SessionOf(c) ==
    /\ cookie_dict = ConvertCookies(c).cookie_dict
    /\ default_headers.cookie = ConvertCookies(c).cookie_str

RequestOf(c) ==
    LET conv == ConvertCookies(c)
    IN  /\ "d_c0" \in DOMAIN conv.cookie_dict
        /\ req.d_c0 = conv.cookie_dict["d_c0"]
        /\ req.headers.cookie = conv.cookie_str
        /\ req.headers.x_zst_81 = Sign(req.url, conv.cookie_str).x_zst_81
        /\ req.headers.x_zse_96 = Sign(req.url, conv.cookie_str).x_zse_96

C14_RefreshAtomic ==
    /\ \E c \in BrowserCookieCollections : SessionOf(c)
    /\ req.sent => \E c \in BrowserCookieCollections : RequestOf(c)

\* one page was requested with the first login's cookies and, after a
\* refresh, the next with the second login's
C14_Witness ==
    /\ refreshes = 1
    /\ \E i, j \in Fetches : i < j
    /\ pc = "request"
    /\ RequestOf("with_d_c0_v2")
    /\ SessionOf("with_d_c0_v2")

(***************************************************************************)
(* C20.  All HTTP attempts of one get() call, the retries included, carry  *)
(* the URL and the headers get() made when it signed, once: while          *)
(* request() is attempting or waiting to retry, its request does not       *)
(* change, whatever update_cookies does meanwhile.  So after a refresh a   *)
(* later attempt still goes out with the cookies from before it.           *)
(***************************************************************************)
InRequest == pc \in {"request", "retry_wait"}

SnapshotKept ==
    /\ (InRequest /\ InRequest') => (req' = req)
    /\ (InRequest' /\ ~InRequest) => (attempt' = 1 /\ sign_calls' = 1)

C20_RetriesKeepSnapshot ==
    /\ [](InRequest =>
            /\ req.sent
            /\ req.headers.x_zst_81 = Sign(req.url, req.headers.cookie).x_zst_81
            /\ req.headers.x_zse_96 = Sign(req.url, req.headers.cookie).x_zse_96)
    /\ [][SnapshotKept]_vars

\* a refresh has completed after get() signed and a further attempt is
\* to be sent, with the cookies from before the refresh
C20_Witness ==
    /\ pc = "request"
    /\ attempt >= 2
    /\ refreshes >= 1
    /\ upd_pc = "idle"
    /\ req.headers.cookie # default_headers.cookie
    /\ req.headers.cookie = ConvertCookies("with_d_c0").cookie_str
    /\ SessionOf("with_d_c0_v2")

(***************************************************************************)
(* C19.  The walk of each parent's replies starts with offset "" and       *)
(* is_end false and threads its own offsets only: a child request carries  *)
(* "" or the offset of the latest page of the same parent, never a cursor  *)
(* of another parent or of the root walk; every comment with replies gets  *)
(* its first request whatever the walk before it ended with; and the child *)
(* walks leave the root walk's offset and is_end as the latest root page   *)
(* set them.                                                               *)
(***************************************************************************)
ChildOffsetsOwn ==
    \A i \in ChildFetches :
        LET before == { j \in Of("child", trace[i].parent, "page") : j < i }
        IN  /\ trace[i].offset = IF before = {} THEN "" ELSE trace[Max(before)].offset
            /\ \A j \in before : Falsy(trace[j].is_end) /\ trace[j].data # <<>>

ChildWalksAllStart ==
    (pc = "done" /\ ENABLE_GET_SUB_COMMENTS) =>
        \A r \in RootPages : \A k \in DOMAIN trace[r].data :
            (trace[r].data[k].sub_comment_count # 0) =>
                \E i \in ChildFetches : trace[i].parent = trace[r].data[k].comment_id

RootCursorKept ==
    (RootPages # {} /\ pc # "start") =>
        /\ offset = trace[Max(RootPages)].offset
        /\ is_end = trace[Max(RootPages)].is_end

C19_ChildCursorsSeparate == ChildOffsetsOwn /\ ChildWalksAllStart /\ RootCursorKept

\* the replies of two comments of one page were walked: the first walk read
\* a last page (is_end true) with a cursor, the second started from ""
C19_Witness ==
    \E i, j \in ChildFetches :
        /\ i < j
        /\ trace[i].parent # trace[j].parent
        /\ trace[j].offset = ""
        /\ \E a \in Of("child", trace[i].parent, "page") :
              /\ a < j
              /\ trace[a].offset # ""
              /\ trace[a].is_end = "True"
        /\ offset # ""

(***************************************************************************)
(* C17.  A page without is_end counts as not ended: after a page that has  *)
(* comments and no is_end = true the walk requests its next page.  An      *)
(* empty payload or an empty extraction still ends the walk, whatever the  *)
(* page says about more.  And every walk terminates once the server has    *)
(* answered with is_end = true, an empty payload, an empty extraction or   *)
(* an error: every run of the crawl ends (done or failed) unless the       *)
(* server has kept answering all MaxFetches requests with pages that       *)
(* continue the walk.                                                      *)
(***************************************************************************)
Continues(j) == trace[j].e = "page" /\ trace[j].data # <<>> /\ trace[j].is_end # "True"

Halts(j) == trace[j].e = "empty" \/ (trace[j].e = "page" /\ trace[j].data = <<>>)

SameWalk(i, j) == trace[i].walk = trace[j].walk /\ trace[i].parent = trace[j].parent

\* the walk of event j is over: for the root walk the crawl is done, for a
\* child walk a request of another walk has followed or the crawl is done
WalkLeft(j) ==
    \/ pc = "done"
    \/ trace[j].walk = "child" /\ \E k \in Fetches : j < k /\ ~SameWalk(j, k)

MissingIsEndContinues ==
    \A j \in DOMAIN trace :
        (Continues(j) /\ WalkLeft(j)) => \E i \in Fetches : j < i /\ SameWalk(i, j)

EmptyHalts ==
    \A j \in DOMAIN trace :
        Halts(j) => ~\E i \in Fetches : j < i /\ SameWalk(i, j)

\* the bound on requests is used up and the walk at hand wants another page
ServerNeverEnded ==
    /\ Cardinality(Fetches) = MaxFetches
    /\ \/ pc = "root_loop" /\ is_end # "True"
       \/ pc = "child_loop" /\ c_is_end # "True"

C17_WalksTerminate ==
    /\ [](MissingIsEndContinues /\ EmptyHalts)
    /\ <>(pc \in {"done", "failed"} \/ ServerNeverEnded)

\* a root page without is_end was followed by the request of the next
\* page, which came back with no comments while claiming more: the walk
\* ended there
C17_Witness ==
    /\ pc = "done"
    /\ \E j \in RootPages, i \in RootFetches, h \in RootPages :
          /\ j < i /\ i < h
          /\ trace[j].is_end = "None" /\ trace[j].data # <<>>
          /\ trace[h].is_end = "False" /\ trace[h].data = <<>>
====
